---------------------------- MODULE Spec2Model ----------------------------
(***************************************************************************)
(* A model of the MIPRO-style prompt optimizer of src/optimizer.ts and of  *)
(* the scorer of src/scorers.ts.                                           *)
(*                                                                         *)
(* Numbers.  A JavaScript number that the program computes is a quotient   *)
(* of small integers or NaN.  It is modelled as a pair <<n, d>>: the       *)
(* fraction n/d in lowest terms when d > 0, and NaN when d = 0 (the only   *)
(* division by zero the code can make is 0/0).                             *)
(*                                                                         *)
(* Rows.  The dataset is the sequence of rows 1..numRows; a row is named   *)
(* by its position.  An instruction text is named by a number.             *)
(***************************************************************************)
EXTENDS Integers, Sequences, FiniteSets, TLC

VARIABLES
    \* arrayOfObjectsScorer called once
    scPc, scOutput, scExpected, scResult,
    \* evaluate called once: its arguments, what the executor returned at
    \* each call, the scorer in use, the executor calls made and the result
    evPc, evInstruction, evFewShot, evDataset, evOutputs, evScorer, evCalls,
    evResult,
    \* bootstrapFewShotExamples called once: the score of each row's
    \* zero-shot output, the target, the executor calls made and the result
    bsPc, bsScores, bsNumExamples, bsCalls, bsExamples,
    \* generateDemoCandidates called once: its arguments and the result
    dmPc, dmNumRows, dmNumDemoCandidates, dmNumFewShot, dmCandidates,
    \* runBayesianOptimization called once: where it is, its arguments and
    \* its variables of the same names
    pc, args, demoCandidates, combos, existingInstructions, stats, best, t,
    \* the registry position of combo (0 before the first selection), the
    \* latest mini-batch and its score, and fullScore and newCandidates while
    \* they are in scope (<<>> otherwise)
    combo, miniBatch, score, fullScore, newCandidates,
    \* the trial at which a UCB value was first computed (-1: never), the
    \* rows drawn into mini-batches of earlier trials, and the numbers of
    \* mini-batch evaluations, full evaluations and generator calls so far
    ucbFirst, drawnBefore, miniEvals, fullEvals, proposeCalls

scorerVars == <<scPc, scOutput, scExpected, scResult>>
evalVars == <<evPc, evInstruction, evFewShot, evDataset, evOutputs, evScorer,
              evCalls, evResult>>
bootVars == <<bsPc, bsScores, bsNumExamples, bsCalls, bsExamples>>
demoVars == <<dmPc, dmNumRows, dmNumDemoCandidates, dmNumFewShot, dmCandidates>>
optVars == <<pc, args, demoCandidates, combos, existingInstructions, stats,
             best, t, combo, miniBatch, score, fullScore, newCandidates, ucbFirst,
             drawnBefore, miniEvals, fullEvals, proposeCalls>>
vars == <<scorerVars, evalVars, bootVars, demoVars, optVars>>

-----------------------------------------------------------------------------
(* Bounds of the model *)

MaxVal == 2
MaxArr == 2
MaxOut == 2
MaxExp == 2
MaxEvalRows == 3
MaxBootRows == 4
MaxTarget == 3
NumInstr == 2
MaxPrompts == 2
MaxRows == 2
MaxTrials == 3
MaxFewShot == 1
MaxPools == 2
MaxBatch == 2
MaxFullEvery == 2
MaxNew == 2
MaxDemoRows == 3
MaxDemoFewShot == 3
LongTrials == 4
LongFullEvery == 3
LongRows == 1

-----------------------------------------------------------------------------
(* JavaScript numbers *)

RECURSIVE GCD(_, _)
GCD(a, b) == IF b = 0 THEN a ELSE GCD(b, a % b)

NaN == <<0, 0>>
Zero == <<0, 1>>
One == <<1, 1>>

IsNaN(a) == a[2] = 0

\* the number n/d, d > 0, n >= 0
Frac(n, d) == LET g == GCD(n, d) IN <<n \div g, d \div g>>

\* a + b
RAdd(a, b) ==
    IF IsNaN(a) \/ IsNaN(b) THEN NaN
    ELSE Frac(a[1] * b[2] + b[1] * a[2], a[2] * b[2])

\* a / k for an integer k >= 0; 0 / 0 is NaN
RDiv(a, k) ==
    IF IsNaN(a) \/ k = 0 THEN NaN
    ELSE Frac(a[1], a[2] * k)

\* a > b, false when either is NaN
Gt(a, b) == ~IsNaN(a) /\ ~IsNaN(b) /\ a[1] * b[2] > b[1] * a[2]

\* a <= b, false when either is NaN
Le(a, b) == ~IsNaN(a) /\ ~IsNaN(b) /\ a[1] * b[2] <= b[1] * a[2]

\* Math.max(a, b): NaN when either is NaN
RMax(a, b) ==
    IF IsNaN(a) \/ IsNaN(b) THEN NaN
    ELSE IF Gt(b, a) THEN b ELSE a

SeqsUpTo(S, n) == UNION {[1..k -> S] : k \in 0..n}

-----------------------------------------------------------------------------
(* src/scorers.ts *)

\* A field value: a scalar (items holds it) or an array; Undefined is what
\* reading a missing field gives.
Undefined == [kind |-> "undefined", items |-> <<>>]
ScalarValues == {[kind |-> "scalar", items |-> <<n>>] : n \in 1..MaxVal}
ArrayValues == {[kind |-> "array", items |-> s] : s \in SeqsUpTo(1..MaxVal, MaxArr)}

\* The record with the given subject and invitees; Undefined leaves the
\* field out.
ScorerRecord(subject, invitees) ==
    [key \in {k \in {"subject", "invitees"} :
                 (IF k = "subject" THEN subject ELSE invitees) # Undefined}
        |-> IF key = "subject" THEN subject ELSE invitees]

\* The records the scorer is tried on: an optional scalar subject and an
\* optional invitees field of either kind.
ScorerRecords ==
    {ScorerRecord(s, l) : s \in ScalarValues \cup {Undefined},
                          l \in ScalarValues \cup ArrayValues \cup {Undefined}}

\* expVal.filter((v) => outVal.includes(v)).length
Common(expItems, outItems) ==
    Cardinality({i \in 1..Len(expItems) :
                    \E j \in 1..Len(outItems) : outItems[j] = expItems[i]})

\* what one key adds to hits
KeyHit(out, exp, key) ==
    LET expVal == exp[key]
        outVal == IF key \in DOMAIN out THEN out[key] ELSE Undefined
    IN  IF expVal.kind = "array" /\ outVal.kind = "array"
        THEN IF Len(expVal.items) = 0 THEN One
             ELSE RDiv(<<Common(expVal.items, outVal.items), 1>>, Len(expVal.items))
        ELSE IF expVal = outVal THEN One ELSE Zero

RECURSIVE Hits(_, _, _)
Hits(keys, out, exp) ==
    IF keys = {} THEN Zero
    ELSE LET key == CHOOSE k \in keys : TRUE
         IN  RAdd(KeyHit(out, exp, key), Hits(keys \ {key}, out, exp))

fieldScore(out, exp) ==
    RDiv(Hits(DOMAIN exp, out, exp), Cardinality(DOMAIN exp))

\* the inner loop over output, from output[i] on, with its break
RECURSIVE BestMatch(_, _, _, _)
BestMatch(output, exp, i, bestMatch) ==
    IF i > Len(output) THEN bestMatch
    ELSE LET b == RMax(bestMatch, fieldScore(output[i], exp))
         IN  IF b = One THEN b ELSE BestMatch(output, exp, i + 1, b)

\* the outer loop over expected, from expected[i] on
RECURSIVE Cumulative(_, _, _, _)
Cumulative(output, expected, i, cumulative) ==
    IF i > Len(expected) THEN cumulative
    ELSE Cumulative(output, expected, i + 1,
                    RAdd(cumulative, BestMatch(output, expected[i], 1, Zero)))

arrayOfObjectsScorer(output, expected) ==
    IF Len(expected) = 0 THEN Zero
    ELSE IF Len(output) = 0 THEN Zero
    ELSE RDiv(Cumulative(output, expected, 1, Zero), Len(expected))

-----------------------------------------------------------------------------
(* src/optimizer.ts: evaluate *)

\* the loop over the rows from row i on: score += scorer(...), where sum is
\* score so far
RECURSIVE ScoreLoop(_, _, _)
ScoreLoop(rowScores, i, sum) ==
    IF i > Len(rowScores) THEN sum
    ELSE ScoreLoop(rowScores, i + 1, RAdd(sum, rowScores[i]))

\* evaluate without its test for an empty row set
evaluate_NoEmptyGuard(instruction, fewShotExamples, rowScores) ==
    [score |-> RDiv(ScoreLoop(rowScores, 1, Zero), Len(rowScores)),
     instruction |-> instruction,
     fewShotExamples |-> fewShotExamples]

\* evaluate, given what the scorer returned for each row in turn
evaluate(instruction, fewShotExamples, rowScores) ==
    [score |-> IF Len(rowScores) = 0 THEN Zero
               ELSE RDiv(ScoreLoop(rowScores, 1, Zero), Len(rowScores)),
     instruction |-> instruction,
     fewShotExamples |-> fewShotExamples]

\* the executor calls of evaluate: fn(row.input, fewShotExamples, instruction)
evaluateCalls(instruction, fewShotExamples, evalDataset) ==
    [i \in 1..Len(evalDataset) |->
        [input |-> evalDataset[i].input, fewShotExamples |-> fewShotExamples,
         instructions |-> instruction]]

\* The scorers evaluate is tried with: exact match and arrayOfObjectsScorer.
exactMatchScorer(output, expected) == IF output = expected THEN One ELSE Zero

ApplyScorer(scorer, output, expected) ==
    IF scorer = "exactMatch" THEN exactMatchScorer(output, expected)
    ELSE arrayOfObjectsScorer(output, expected)

\* The outputs evaluate is tried with: no record, or one record with an
\* optional subject.
EvalOutputs ==
    SeqsUpTo({ScorerRecord(s, Undefined) : s \in ScalarValues \cup {Undefined}}, 1)

\* what the scorer returns for each row, given the executor's outputs
RowScoresOf(scorer, evalDataset, outputs) ==
    [i \in 1..Len(evalDataset) |-> ApplyScorer(scorer, outputs[i], evalDataset[i].output)]

-----------------------------------------------------------------------------
(* src/optimizer.ts: bootstrapFewShotExamples *)

\* The loop over the dataset from row i on; scores[i] is the score of the
\* executor's zero-shot output on row i.  Gives the examples and the number
\* of executor calls.
RECURSIVE BootLoop(_, _, _, _, _)
BootLoop(scores, numExamples, i, examples, calls) ==
    IF i > Len(scores) THEN [examples |-> examples, calls |-> calls]
    ELSE IF scores[i] = One
         THEN IF Len(examples) + 1 >= numExamples
              THEN [examples |-> Append(examples, i), calls |-> calls + 1]
              ELSE BootLoop(scores, numExamples, i + 1, Append(examples, i), calls + 1)
         ELSE BootLoop(scores, numExamples, i + 1, examples, calls + 1)

bootstrapFewShotExamples(scores, numExamples) ==
    BootLoop(scores, numExamples, 1, <<>>, 0)

-----------------------------------------------------------------------------
(* src/optimizer.ts: selectRandomRowsFromDataset, generateDemoCandidates *)

Min(a, b) == IF a < b THEN a ELSE b

Range(s) == {s[i] : i \in 1..Len(s)}

\* the dataset of numRows rows, in its original order
Dataset(numRows) == [i \in 1..numRows |-> i]

\* [...dataset].sort(() => Math.random() - 0.5): some order of the rows
Shuffles(numRows) == Permutations(1..numRows)

\* array.slice(0, end)
Slice(s, end) ==
    IF end < 0 THEN SubSeq(s, 1, Len(s) + end) ELSE SubSeq(s, 1, Min(end, Len(s)))

\* selectRandomRowsFromDataset drawing each row anew from the whole dataset
selectRandomRowsFromDataset_WithReplacement(numRows, maxExamples) ==
    [1..Min(maxExamples, numRows) -> 1..numRows]

\* what selectRandomRowsFromDataset can return
selectRandomRowsFromDataset(numRows, maxExamples) ==
    {Slice(shuffled, Min(maxExamples, Len(shuffled))) : shuffled \in Shuffles(numRows)}

\* the teacher loop over shuffled from position i on; passing holds the rows
\* on which the teacher's output scores 1
RECURSIVE TeacherLoop(_, _, _, _, _)
TeacherLoop(shuffled, passing, numFewShot, i, demos) ==
    IF i > Len(shuffled) \/ Len(demos) >= numFewShot THEN demos
    ELSE TeacherLoop(shuffled, passing, numFewShot, i + 1,
                     IF shuffled[i] \in passing THEN Append(demos, shuffled[i])
                     ELSE demos)

\* what one pass of the loop over c can push on candidates
DemoPools(numRows, numFewShot) ==
    UNION {LET demos == TeacherLoop(shuffled, passing, numFewShot, 1, <<>>)
           IN  IF Len(demos) < numFewShot
               THEN {demos \o filler :
                        filler \in selectRandomRowsFromDataset(
                                       numRows, numFewShot - Len(demos))}
               ELSE {demos}
           : shuffled \in Shuffles(numRows), passing \in SUBSET (1..numRows)}

\* what generateDemoCandidates can return
generateDemoCandidates(numRows, numDemoCandidates, numFewShot) ==
    [1..numDemoCandidates -> DemoPools(numRows, numFewShot)]

-----------------------------------------------------------------------------
(* src/optimizer.ts: runBayesianOptimization *)

\* a key made of the instruction alone, without the pool index
ComboKey_WithoutPoolIndex(instr, i) == <<instr, 0>>

\* `${instr}::${i}`: the pool index is a number, so the text after the last
\* "::" is the pool index and the text before it the instruction; the key
\* is modelled as the pair.
ComboKey(instr, i) == <<instr, i>>

Combo(instr, pools, i) ==
    [instruction |-> instr, demos |-> pools[i], key |-> ComboKey(instr, i)]

\* the combos of one instruction, one per demo pool
CombosOf(instr, pools) == [i \in 1..Len(pools) |-> Combo(instr, pools, i)]

\* the loop that builds the initial registry, from promptCandidates[n] on
RECURSIVE InitialCombos(_, _, _, _)
InitialCombos(promptCandidates, pools, n, cs) ==
    IF n > Len(promptCandidates) THEN cs
    ELSE InitialCombos(promptCandidates, pools, n + 1,
                       cs \o CombosOf(promptCandidates[n], pools))

\* the loop over newCandidates without its test for a known instruction
RECURSIVE ExpandLoop_NoKnownCheck(_, _, _, _, _)
ExpandLoop_NoKnownCheck(candidates, pools, n, cs, existing) ==
    IF n > Len(candidates) THEN [combos |-> cs, existingInstructions |-> existing]
    ELSE ExpandLoop_NoKnownCheck(candidates, pools, n + 1,
                                 cs \o CombosOf(candidates[n], pools),
                                 existing \cup {candidates[n]})

\* the loop over newCandidates, from newCandidates[n] on: the registry and
\* the known instructions after it
RECURSIVE ExpandLoop(_, _, _, _, _)
ExpandLoop(candidates, pools, n, cs, existing) ==
    IF n > Len(candidates) THEN [combos |-> cs, existingInstructions |-> existing]
    ELSE IF candidates[n] \in existing
         THEN ExpandLoop(candidates, pools, n + 1, cs, existing)
         ELSE ExpandLoop(candidates, pools, n + 1,
                         cs \o CombosOf(candidates[n], pools),
                         existing \cup {candidates[n]})

\* Math.sqrt((2 * Math.log(n)) / count) for n = 1..8 (the row) and
\* count = 1..8 (the column), in units of 1/1000000, rounded down
UcbBonus ==
    <<<<0, 0, 0, 0, 0, 0, 0, 0>>,
      <<1177410, 832554, 679777, 588705, 526553, 480675, 445019, 416277>>,
      <<1482303, 1048147, 855808, 741151, 662906, 605147, 560258, 524073>>,
      <<1665109, 1177410, 961351, 832554, 744659, 679777, 629352, 588705>>,
      <<1794122, 1268636, 1035837, 897061, 802356, 732447, 678114, 634318>>,
      <<1893018, 1338566, 1092934, 946509, 846583, 772821, 715493, 669283>>,
      <<1972769, 1394958, 1138979, 986384, 882249, 805379, 745636, 697479>>,
      <<2039333, 1442026, 1177410, 1019666, 912017, 832554, 770795, 721013>>>>

\* mean + Math.sqrt((2 * logT) / stat.count) at trial tt, in units of
\* 1/1000000 (each term rounded down); stat.total is not NaN
Ucb(stat, tt) ==
    (stat.total[1] * 1000000) \div (stat.total[2] * stat.count)
    + UcbBonus[tt + 1][stat.count]

\* UcbLoop with ucb >= maxUcb: the last of several equal maxima is kept
RECURSIVE UcbLoop_LastMaxWins(_, _, _, _, _, _, _)
UcbLoop_LastMaxWins(cs, st, tt, i, maxAt, sel, computed) ==
    IF i > Len(cs) THEN [combo |-> sel, computed |-> computed]
    ELSE IF cs[i].key \notin DOMAIN st THEN [combo |-> i, computed |-> computed]
    ELSE LET stat == st[cs[i].key]
             greater ==
                /\ ~IsNaN(stat.total)
                /\ \/ maxAt = 0
                   \/ Ucb(stat, tt) >= Ucb(st[cs[maxAt].key], tt)
         IN  IF greater THEN UcbLoop_LastMaxWins(cs, st, tt, i + 1, i, i, TRUE)
             ELSE UcbLoop_LastMaxWins(cs, st, tt, i + 1, maxAt, sel, TRUE)

\* the loop over combos from combos[i] on: maxAt is the position whose ucb
\* is maxUcb (0: maxUcb is -Infinity), sel the position of combo
RECURSIVE UcbLoop(_, _, _, _, _, _, _)
UcbLoop(cs, st, tt, i, maxAt, sel, computed) ==
    IF i > Len(cs) THEN [combo |-> sel, computed |-> computed]
    ELSE IF cs[i].key \notin DOMAIN st THEN [combo |-> i, computed |-> computed]
    ELSE LET stat == st[cs[i].key]
             greater ==
                /\ ~IsNaN(stat.total)
                /\ \/ maxAt = 0
                   \/ Ucb(stat, tt) > Ucb(st[cs[maxAt].key], tt)
         IN  IF greater THEN UcbLoop(cs, st, tt, i + 1, i, i, TRUE)
             ELSE UcbLoop(cs, st, tt, i + 1, maxAt, sel, TRUE)

\* selectCombo without the warm-start branch
selectCombo_NoWarmStart(cs, st, tt) == UcbLoop(cs, st, tt, 1, 0, 1, FALSE)

\* the combo selected at trial tt: its registry position, and whether a UCB
\* value was computed
selectCombo(cs, st, tt) ==
    IF tt < Len(cs) THEN [combo |-> tt + 1, computed |-> FALSE]
    ELSE UcbLoop(cs, st, tt, 1, 0, 1, FALSE)

\* updateStats that starts from { total: 0, count: 0 } even for a known key
updateStats_ForgetsCurrent(st, key, sc) ==
    LET updated == [total |-> RAdd(Zero, sc), count |-> 1]
    IN  [k \in DOMAIN st \cup {key} |-> IF k = key THEN updated ELSE st[k]]

\* stats after the selected combo's statistic is updated with score
updateStats(st, key, sc) ==
    LET current == IF key \in DOMAIN st THEN st[key] ELSE [total |-> Zero, count |-> 0]
        updated == [total |-> RAdd(current.total, sc), count |-> current.count + 1]
    IN  [k \in DOMAIN st \cup {key} |-> IF k = key THEN updated ELSE st[k]]

\* bestAfterMiniBatch with score >= best.score
bestAfterMiniBatch_AcceptsTies(b, c, sc) ==
    IF b = <<>> \/ Le(b[1].score, sc)
    THEN <<[instruction |-> c.instruction, score |-> sc, fewShotExamples |-> c.demos]>>
    ELSE b

\* best is <<>> for null and <<b>> for the record b
bestAfterMiniBatch(b, c, sc) ==
    IF b = <<>> \/ Gt(sc, b[1].score)
    THEN <<[instruction |-> c.instruction, score |-> sc, fewShotExamples |-> c.demos]>>
    ELSE b

bestAfterFullEval(b, full) ==
    IF Gt(full.score, IF b = <<>> THEN Zero ELSE b[1].score)
    THEN <<[instruction |-> full.instruction, score |-> full.score,
            fewShotExamples |-> full.fewShotExamples]>>
    ELSE b

\* isFullEvalStep with t in place of t + 1
isFullEvalStep_OffByOne(tt, miniBatchFullEvalSteps) ==
    miniBatchFullEvalSteps # 0 /\ tt % miniBatchFullEvalSteps = 0

\* (t + 1) % miniBatchFullEvalSteps === 0; x % 0 is NaN
isFullEvalStep(tt, miniBatchFullEvalSteps) ==
    miniBatchFullEvalSteps # 0 /\ (tt + 1) % miniBatchFullEvalSteps = 0

\* The initial candidate lists tried: instruction texts are interchangeable,
\* so a non-empty list starts with text 1.
PromptLists == {p \in SeqsUpTo(1..NumInstr, MaxPrompts) : p = <<>> \/ p[1] = 1}

\* what the scorer can return for a row
RowScores == {Zero, One, NaN}

-----------------------------------------------------------------------------
(* The specifications *)

ScorerIdle ==
    scPc = "idle" /\ scOutput = <<>> /\ scExpected = <<>> /\ scResult = Zero

EvalIdle ==
    /\ evPc = "idle" /\ evInstruction = 1 /\ evFewShot = <<>> /\ evDataset = <<>>
    /\ evOutputs = <<>> /\ evScorer = "exactMatch" /\ evCalls = <<>>
    /\ evResult = evaluate(1, <<>>, <<>>)

BootIdle ==
    /\ bsPc = "idle" /\ bsScores = <<>> /\ bsNumExamples = 0 /\ bsCalls = 0
    /\ bsExamples = <<>>

DemoIdle ==
    /\ dmPc = "idle" /\ dmNumRows = 0 /\ dmNumDemoCandidates = 0
    /\ dmNumFewShot = 0 /\ dmCandidates = <<>>

OptIdle ==
    /\ pc = "idle"
    /\ args = [promptCandidates |-> <<>>, numRows |-> 0, numTrials |-> 0,
               numFewShot |-> 0, numDemoCandidates |-> 0, miniBatchSize |-> 0,
               miniBatchFullEvalSteps |-> 0]
    /\ demoCandidates = <<>> /\ combos = <<>> /\ existingInstructions = {}
    /\ stats = <<>> /\ best = <<>> /\ t = 0 /\ combo = 0 /\ miniBatch = <<>>
    /\ score = Zero /\ fullScore = <<>> /\ newCandidates = <<>>
    /\ ucbFirst = -1 /\ drawnBefore = {} /\ miniEvals = 0 /\ fullEvals = 0
    /\ proposeCalls = 0

ScorerInit ==
    /\ scPc = "call"
    /\ scOutput \in SeqsUpTo(ScorerRecords, MaxOut)
    /\ scExpected \in SeqsUpTo(ScorerRecords, MaxExp)
    /\ scResult = Zero
    /\ EvalIdle /\ BootIdle /\ DemoIdle /\ OptIdle

ScorerCall ==
    /\ scPc = "call"
    /\ scResult' = arrayOfObjectsScorer(scOutput, scExpected)
    /\ scPc' = "returned"
    /\ UNCHANGED <<scOutput, scExpected, evalVars, bootVars, demoVars, optVars>>

ScorerNext == ScorerCall

SpecScorer == ScorerInit /\ [][ScorerNext]_vars

EvalInit ==
    /\ evPc = "call"
    /\ evInstruction \in 1..NumInstr
    /\ evFewShot \in {<<>>, <<1>>}
    /\ \E n \in 0..MaxEvalRows :
          /\ \E outs \in [1..n -> EvalOutputs] :
                evDataset = [i \in 1..n |-> [input |-> i, output |-> outs[i]]]
          /\ evOutputs \in [1..n -> EvalOutputs]
    /\ evScorer \in {"exactMatch", "arrayOfObjectsScorer"}
    /\ evCalls = <<>>
    /\ evResult = evaluate(1, <<>>, <<>>)
    /\ ScorerIdle /\ BootIdle /\ DemoIdle /\ OptIdle

EvalCall ==
    /\ evPc = "call"
    /\ evCalls' = evaluateCalls(evInstruction, evFewShot, evDataset)
    /\ evResult' = evaluate(evInstruction, evFewShot,
                            RowScoresOf(evScorer, evDataset, evOutputs))
    /\ evPc' = "returned"
    /\ UNCHANGED <<evInstruction, evFewShot, evDataset, evOutputs, evScorer,
                   scorerVars, bootVars, demoVars, optVars>>

EvalNext == EvalCall

SpecEvaluate == EvalInit /\ [][EvalNext]_vars

BootInit ==
    /\ bsPc = "call"
    /\ bsScores \in SeqsUpTo({Zero, Frac(1, 2), One, NaN}, MaxBootRows)
    /\ bsNumExamples \in 0..MaxTarget
    /\ bsCalls = 0
    /\ bsExamples = <<>>
    /\ ScorerIdle /\ EvalIdle /\ DemoIdle /\ OptIdle

BootCall ==
    /\ bsPc = "call"
    /\ LET r == bootstrapFewShotExamples(bsScores, bsNumExamples)
       IN  bsExamples' = r.examples /\ bsCalls' = r.calls
    /\ bsPc' = "returned"
    /\ UNCHANGED <<bsScores, bsNumExamples, scorerVars, evalVars, demoVars, optVars>>

BootNext == BootCall

SpecBootstrap == BootInit /\ [][BootNext]_vars

DemoInit ==
    /\ dmPc = "call"
    /\ dmNumRows \in 0..MaxDemoRows
    /\ dmNumDemoCandidates \in 0..MaxPools
    /\ dmNumFewShot \in 0..MaxDemoFewShot
    /\ dmCandidates = <<>>
    /\ ScorerIdle /\ EvalIdle /\ BootIdle /\ OptIdle

DemoCall ==
    /\ dmPc = "call"
    /\ dmCandidates' \in generateDemoCandidates(dmNumRows, dmNumDemoCandidates,
                                                dmNumFewShot)
    /\ dmPc' = "returned"
    /\ UNCHANGED <<dmNumRows, dmNumDemoCandidates, dmNumFewShot, scorerVars,
                   evalVars, bootVars, optVars>>

DemoNext == DemoCall

SpecDemo == DemoInit /\ [][DemoNext]_vars

\* runBayesianOptimization is called
Init ==
    /\ pc = "start"
    /\ args \in [promptCandidates : PromptLists,
                 numRows : 0..MaxRows,
                 numTrials : 0..MaxTrials,
                 numFewShot : 0..MaxFewShot,
                 numDemoCandidates : 0..MaxPools,
                 miniBatchSize : 0..MaxBatch,
                 miniBatchFullEvalSteps : 0..MaxFullEvery]
    /\ demoCandidates = <<>> /\ combos = <<>> /\ existingInstructions = {}
    /\ stats = <<>> /\ best = <<>> /\ t = 0 /\ combo = 0 /\ miniBatch = <<>>
    /\ score = Zero /\ fullScore = <<>> /\ newCandidates = <<>>
    /\ ucbFirst = -1 /\ drawnBefore = {} /\ miniEvals = 0 /\ fullEvals = 0
    /\ proposeCalls = 0
    /\ ScorerIdle /\ EvalIdle /\ BootIdle /\ DemoIdle

\* lines 217-248: the demo pools, the initial registry, no statistics
Setup ==
    /\ pc = "start"
    /\ \E pools \in generateDemoCandidates(
                         args.numRows, args.numDemoCandidates, args.numFewShot) :
          /\ demoCandidates' = pools
          /\ combos' = InitialCombos(args.promptCandidates, pools, 1, <<>>)
    /\ existingInstructions' = Range(args.promptCandidates)
    /\ stats' = <<>>
    /\ best' = <<>>
    /\ t' = 0
    /\ pc' = "loop"
    /\ UNCHANGED <<args, combo, miniBatch, score, fullScore, newCandidates,
                   ucbFirst, drawnBefore, miniEvals, fullEvals, proposeCalls>>

\* lines 250-296: one trial up to the update of best
TrialMiniBatch ==
    /\ pc = "loop"
    /\ t < args.numTrials
    /\ Len(combos) > 0
    /\ LET sel == selectCombo(combos, stats, t)
           c == combos[sel.combo]
       IN  /\ combo' = sel.combo
           /\ ucbFirst' = IF sel.computed /\ ucbFirst = -1 THEN t ELSE ucbFirst
           /\ \E drawn \in selectRandomRowsFromDataset(args.numRows, args.miniBatchSize) :
              \E rowScores \in [1..Len(drawn) -> RowScores] :
                LET result == evaluate(c.instruction, c.demos, rowScores)
                IN  /\ miniBatch' = drawn
                    /\ score' = result.score
                    /\ stats' = updateStats(stats, c.key, result.score)
                    /\ best' = bestAfterMiniBatch(best, c, result.score)
    /\ drawnBefore' = drawnBefore \cup Range(miniBatch)
    /\ miniEvals' = miniEvals + 1
    /\ IF isFullEvalStep(t, args.miniBatchFullEvalSteps)
       THEN pc' = "fullEval" /\ t' = t
       ELSE pc' = "loop" /\ t' = t + 1
    /\ UNCHANGED <<args, demoCandidates, combos, existingInstructions, fullScore,
                   newCandidates, fullEvals, proposeCalls>>

\* lines 254-278 with an empty registry: combo is undefined and reading
\* combo.instruction throws
TrialThrows ==
    /\ pc = "loop"
    /\ t < args.numTrials
    /\ Len(combos) = 0
    /\ pc' = "error"
    /\ UNCHANGED <<args, demoCandidates, combos, existingInstructions, stats,
                   best, t, combo, miniBatch, score, fullScore, newCandidates,
                   ucbFirst, drawnBefore, miniEvals, fullEvals, proposeCalls>>

\* lines 299-313: the full-dataset evaluation of the just-used combo
FullEval ==
    /\ pc = "fullEval"
    /\ \E rowScores \in [1..args.numRows -> RowScores] :
          LET c == combos[combo]
              full == evaluate(c.instruction, c.demos, rowScores)
          IN  /\ fullScore' = <<full>>
              /\ best' = bestAfterFullEval(best, full)
    /\ fullEvals' = fullEvals + 1
    /\ pc' = "propose"
    /\ UNCHANGED <<args, demoCandidates, combos, existingInstructions, stats, t,
                   combo, miniBatch, score, newCandidates, ucbFirst,
                   drawnBefore, miniEvals, proposeCalls>>

\* lines 317-325: the generator returns some list of instructions
Propose ==
    /\ pc = "propose"
    /\ newCandidates' \in SeqsUpTo(1..NumInstr, MaxNew)
    /\ proposeCalls' = proposeCalls + 1
    /\ pc' = "expand"
    /\ UNCHANGED <<args, demoCandidates, combos, existingInstructions, stats,
                   best, t, combo, miniBatch, score, fullScore, ucbFirst,
                   drawnBefore, miniEvals, fullEvals>>

\* lines 327-337: the new instructions are admitted and the trial ends
Expand ==
    /\ pc = "expand"
    /\ LET r == ExpandLoop(newCandidates, demoCandidates, 1, combos,
                           existingInstructions)
       IN  combos' = r.combos /\ existingInstructions' = r.existingInstructions
    /\ newCandidates' = <<>>
    /\ fullScore' = <<>>
    /\ t' = t + 1
    /\ pc' = "loop"
    /\ UNCHANGED <<args, demoCandidates, stats, best, combo, miniBatch, score,
                   ucbFirst, drawnBefore, miniEvals, fullEvals, proposeCalls>>

\* lines 250 and 339: the loop ends and best is returned
Return ==
    /\ pc = "loop"
    /\ t >= args.numTrials
    /\ pc' = "done"
    /\ UNCHANGED <<args, demoCandidates, combos, existingInstructions, stats,
                   best, t, combo, miniBatch, score, fullScore, newCandidates,
                   ucbFirst, drawnBefore, miniEvals, fullEvals, proposeCalls>>

Next ==
    \/ (Setup /\ UNCHANGED <<scorerVars, evalVars, bootVars, demoVars>>)
    \/ (TrialMiniBatch /\ UNCHANGED <<scorerVars, evalVars, bootVars, demoVars>>)
    \/ (TrialThrows /\ UNCHANGED <<scorerVars, evalVars, bootVars, demoVars>>)
    \/ (FullEval /\ UNCHANGED <<scorerVars, evalVars, bootVars, demoVars>>)
    \/ (Propose /\ UNCHANGED <<scorerVars, evalVars, bootVars, demoVars>>)
    \/ (Expand /\ UNCHANGED <<scorerVars, evalVars, bootVars, demoVars>>)
    \/ (Return /\ UNCHANGED <<scorerVars, evalVars, bootVars, demoVars>>)

Spec == Init /\ [][Next]_vars

\* The run is one sequential control flow: while it has a step to take and
\* every call returns, it takes it.
FairSpec == Spec /\ WF_vars(Next)

\* runBayesianOptimization is called for a longer run, with checkpoints
\* further apart, on a small dataset without few-shot demos: rows and demos
\* play no part in which combo a trial selects
LongRunInit ==
    /\ pc = "start"
    /\ args \in [promptCandidates : PromptLists,
                 numRows : {LongRows},
                 numTrials : 0..LongTrials,
                 numFewShot : {0},
                 numDemoCandidates : 0..MaxPools,
                 miniBatchSize : {LongRows},
                 miniBatchFullEvalSteps : 0..LongFullEvery]
    /\ demoCandidates = <<>> /\ combos = <<>> /\ existingInstructions = {}
    /\ stats = <<>> /\ best = <<>> /\ t = 0 /\ combo = 0 /\ miniBatch = <<>>
    /\ score = Zero /\ fullScore = <<>> /\ newCandidates = <<>>
    /\ ucbFirst = -1 /\ drawnBefore = {} /\ miniEvals = 0 /\ fullEvals = 0
    /\ proposeCalls = 0
    /\ ScorerIdle /\ EvalIdle /\ BootIdle /\ DemoIdle

SpecLongRun == LongRunInit /\ [][Next]_vars

-----------------------------------------------------------------------------
(* Claims about evaluate, the scorer and the bootstrap pass *)

\* the sum of a sequence of numbers, last first
RECURSIVE RowSum(_)
RowSum(s) == IF s = <<>> THEN Zero ELSE RAdd(RowSum(SubSeq(s, 1, Len(s) - 1)), s[Len(s)])

EvRowScores == RowScoresOf(evScorer, evDataset, evOutputs)

EvEchoes == \A i \in 1..Len(evDataset) : evOutputs[i] = evDataset[i].output

(* C6: evaluate makes one executor call per row, with that row's input and *)
(* the given demos and instruction, and returns as score the arithmetic    *)
(* mean of the scorer's results over the rows; the score is 0 for an empty *)
(* row set, 1 when the executor echoes every expected output of a          *)
(* non-empty row set under the exact-match scorer, and 0 when every row    *)
(* scores 0.                                                               *)
C6_EvaluateIsMean ==
    evPc = "returned" =>
        /\ Len(evCalls) = Len(evDataset)
        /\ \A i \in 1..Len(evDataset) :
              /\ evCalls[i].input = evDataset[i].input
              /\ evCalls[i].fewShotExamples = evFewShot
              /\ evCalls[i].instructions = evInstruction
        /\ evResult.instruction = evInstruction
        /\ evResult.fewShotExamples = evFewShot
        /\ Len(evDataset) = 0 => evResult.score = Zero
        /\ Len(evDataset) > 0 =>
              evResult.score = RDiv(RowSum(EvRowScores), Len(evDataset))
        /\ (Len(evDataset) > 0 /\ evScorer = "exactMatch" /\ EvEchoes) =>
              evResult.score = One
        /\ (\A i \in 1..Len(evDataset) : EvRowScores[i] = Zero) =>
              evResult.score = Zero

\* the 3-row scenario: an echoing executor under exact match scores 1
C6_Witness ==
    /\ evPc = "returned" /\ Len(evDataset) = 3 /\ evScorer = "exactMatch"
    /\ EvEchoes /\ evResult.score = One

(* C7: arrayOfObjectsScorer returns a number s with 0 <= s <= 1 for every  *)
(* output and every expected value, and 0 when output or expected is       *)
(* empty.                                                                  *)
C7_ScoreInUnitInterval ==
    scPc = "returned" =>
        /\ Le(Zero, scResult) /\ Le(scResult, One)
        /\ (Len(scOutput) = 0 \/ Len(scExpected) = 0) => scResult = Zero

\* the rows that qualify, in dataset order
BsQualifying == SelectSeq([i \in 1..Len(bsScores) |-> i], LAMBDA i : bsScores[i] = One)

(* C10: bootstrapFewShotExamples returns the first min(target, number of   *)
(* qualifying rows) rows whose zero-shot output scores exactly 1, in       *)
(* dataset order, never more than target rows, and calls the executor on   *)
(* no row after the target is reached.                                     *)
C10_BootstrapFirstQualifying ==
    bsPc = "returned" =>
        LET n == IF bsNumExamples < Len(BsQualifying)
                 THEN bsNumExamples ELSE Len(BsQualifying)
        IN  /\ bsExamples = SubSeq(BsQualifying, 1, n)
            /\ Len(bsExamples) <= bsNumExamples
            /\ bsCalls = IF n < bsNumExamples THEN Len(bsScores)
                         ELSE IF n = 0 THEN 0 ELSE BsQualifying[n]

-----------------------------------------------------------------------------
(* Claims about generateDemoCandidates and runBayesianOptimization *)

(* C1: every demo pool returned by generateDemoCandidates has exactly      *)
(* numFewShot rows, for every dataset, every numFewShot >= 0 and every     *)
(* set of rows that pass the teacher's filter.                             *)
C1_PoolsHaveNumFewShotRows ==
    dmPc = "returned" =>
        \A c \in 1..Len(dmCandidates) : Len(dmCandidates[c]) = dmNumFewShot

\* a trial's mini-batch evaluation, a full evaluation and the admission of
\* new candidates are the steps that change these
MiniBatchStep == miniEvals' = miniEvals + 1
FullEvalStep == fullEvals' = fullEvals + 1
ExpandStep == pc = "expand" /\ pc' = "loop"

(* C2: across the trial loop BestResult.score never decreases: once set,   *)
(* best stays set and is replaced only by the result of a mini-batch or    *)
(* full-dataset evaluation just made whose score is strictly greater than  *)
(* the current best score.                                                 *)
C2_BestNeverDecreases ==
    [][/\ best # <<>> => best' # <<>>
       /\ best' # best =>
            /\ \/ MiniBatchStep /\ best'[1].score = score'
               \/ FullEvalStep /\ best'[1].score = fullScore'[1].score
            /\ best # <<>> => Gt(best'[1].score, best[1].score)]_vars

\* a full-dataset score has replaced a best set by a lower mini-batch score
C2_Witness ==
    /\ pc = "propose" /\ fullScore # <<>> /\ best # <<>>
    /\ best[1].score = fullScore[1].score
    /\ Gt(fullScore[1].score, score)

NumInitialCombos == Len(args.promptCandidates) * args.numDemoCandidates

\* the combo the initial cross product puts at registry position n + 1
InitialComboAt(n) ==
    Combo(args.promptCandidates[(n \div args.numDemoCandidates) + 1],
          demoCandidates, (n % args.numDemoCandidates) + 1)

(* C3: at every trial t < numInitialCombos the combo selected is the t-th  *)
(* combo of the initial cross product (so each is selected once in those   *)
(* trials), and no UCB value is computed at or before such a trial, also   *)
(* when the registry was expanded meanwhile.                               *)
C3_WarmStart ==
    [][(MiniBatchStep /\ t < NumInitialCombos) =>
            /\ combo' = t + 1
            /\ combos[combo'] = InitialComboAt(t)
            /\ ucbFirst' = -1]_vars

\* the second warm-start trial has run on a registry already expanded
C3_Witness ==
    /\ miniEvals = 2 /\ combo = 2 /\ NumInitialCombos >= 2
    /\ Len(combos) > NumInitialCombos /\ ucbFirst = -1

(* C4: when the generator's list holds k distinct instructions not yet     *)
(* known, admitting it appends exactly k * numDemoCandidates combos, one   *)
(* per demo pool for each new instruction, admits no known instruction     *)
(* again and leaves the existing entries in place.                         *)
C4_ExpansionGrowsByKTimesPools ==
    [][ExpandStep =>
        LET fresh == Range(newCandidates) \ existingInstructions
            added == (Len(combos) + 1)..Len(combos')
        IN  /\ Len(combos') = Len(combos) + Cardinality(fresh) * args.numDemoCandidates
            /\ SubSeq(combos', 1, Len(combos)) = combos
            /\ \A i \in added : combos'[i].instruction \in fresh
            /\ \A instr \in fresh : \A p \in 1..args.numDemoCandidates :
                  Cardinality({i \in added :
                                  combos'[i] = Combo(instr, demoCandidates, p)}) = 1
            /\ existingInstructions' = existingInstructions \cup fresh]_vars

\* one new instruction was admitted with two demo pools
C4_Witness ==
    /\ pc = "loop" /\ proposeCalls = 1 /\ args.numDemoCandidates = 2
    /\ Len(combos) = NumInitialCombos + 2
    /\ Cardinality(existingInstructions) = Cardinality(Range(args.promptCandidates)) + 1

(* C5: no two entries of the combo registry have the same key, whatever    *)
(* the list of initial instruction candidates.                             *)
C5_ComboKeysUnique ==
    \A i, j \in 1..Len(combos) : combos[i].key = combos[j].key => i = j

NoRowTwice(rows) == \A i, j \in 1..Len(rows) : rows[i] = rows[j] => i = j

(* C8 as claimed: every trial's mini-batch has miniBatchSize rows, none    *)
(* of them twice.                                                          *)
C8_MiniBatchHasMiniBatchSize ==
    miniEvals > 0 => Len(miniBatch) = args.miniBatchSize /\ NoRowTwice(miniBatch)

(* C8 as amended: every trial's mini-batch has min(miniBatchSize, number   *)
(* of dataset rows) rows of the dataset, none of them twice; a row may     *)
(* recur across trials.                                                    *)
C8_MiniBatchSizeCapped ==
    miniEvals > 0 =>
        /\ Len(miniBatch) = Min(args.miniBatchSize, args.numRows)
        /\ Range(miniBatch) \subseteq 1..args.numRows
        /\ NoRowTwice(miniBatch)

\* a mini-batch smaller than miniBatchSize that draws a row drawn before
C8_Witness ==
    /\ miniEvals >= 2 /\ Len(miniBatch) >= 1 /\ Len(miniBatch) < args.miniBatchSize
    /\ Range(miniBatch) \cap drawnBefore # {}

\* the number of trials among 0..n-1 that end with a full evaluation
FullEvalSteps(n) ==
    IF args.miniBatchFullEvalSteps = 0 THEN 0 ELSE n \div args.miniBatchFullEvalSteps

\* the counts of evaluations and generator calls where the run stands
CountsInStep ==
    /\ t <= args.numTrials
    /\ fullEvals = FullEvalSteps(t) + (IF pc \in {"propose", "expand"} THEN 1 ELSE 0)
    /\ proposeCalls = FullEvalSteps(t) + (IF pc = "expand" THEN 1 ELSE 0)
    /\ miniEvals = t + (IF pc \in {"fullEval", "propose", "expand"} THEN 1 ELSE 0)
    /\ pc \in {"fullEval", "propose", "expand"} =>
          isFullEvalStep(t, args.miniBatchFullEvalSteps)

StepsLeft ==
    IF pc \in {"done", "error"} THEN 0
    ELSE IF pc = "start" THEN 4 * args.numTrials + 2
    ELSE 4 * (args.numTrials - t) + 1
         - (CASE pc = "loop" -> 0 [] pc = "fullEval" -> 1
              [] pc = "propose" -> 2 [] pc = "expand" -> 3)

Unobserved == {i \in 1..Len(combos) : combos[i].key \notin DOMAIN stats}

\* the UCB values of registry positions i and j at trial t, compared as
\* numbers compare: a comparison with NaN is false
UcbGreater(i, j) ==
    LET a == stats[combos[i].key]
        b == stats[combos[j].key]
    IN  ~IsNaN(a.total) /\ ~IsNaN(b.total) /\ Ucb(a, t) > Ucb(b, t)

UcbEqual(i, j) ==
    LET a == stats[combos[i].key]
        b == stats[combos[j].key]
    IN  ~IsNaN(a.total) /\ ~IsNaN(b.total) /\ Ucb(a, t) = Ucb(b, t)

(* C11: at a trial t >= number of known combos, if some known combo has no *)
(* observation the first such combo in registry order is selected,         *)
(* whatever the UCB values of the others; otherwise no known combo has a   *)
(* UCB value mean + sqrt(2*ln(t+1)/count) greater than the selected one's, *)
(* and no combo earlier in the registry has a UCB value equal to it.       *)
C11_SteadyStateSelection ==
    [][(MiniBatchStep /\ t >= Len(combos)) =>
          IF Unobserved # {}
          THEN /\ combo' \in Unobserved
               /\ \A i \in Unobserved : combo' <= i
          ELSE /\ combo' \in 1..Len(combos)
               /\ \A j \in 1..Len(combos) : ~UcbGreater(j, combo')
               /\ \A j \in 1..(combo' - 1) : ~UcbEqual(j, combo')]_vars

\* the third trial has selected the second of two observed combos by its
\* greater UCB value
C11_Witness ==
    /\ pc = "loop" /\ t = 3 /\ ucbFirst = 2 /\ Len(combos) = 2 /\ combo = 2
    /\ combos[1].key # combos[2].key
    /\ DOMAIN stats = {combos[1].key, combos[2].key}
    /\ stats[combos[1].key].count = 1 /\ stats[combos[2].key].count = 2

\* the sum of the trialCounts of the keys in keys
RECURSIVE SumCounts(_, _)
SumCounts(st, keys) ==
    IF keys = {} THEN 0
    ELSE LET k == CHOOSE x \in keys : TRUE
         IN  st[k].count + SumCounts(st, keys \ {k})

\* the statistic of key, or the one a first observation starts from
StatOf(st, key) == IF key \in DOMAIN st THEN st[key] ELSE [total |-> Zero, count |-> 0]

(* C12: each trial updates exactly one statistic, that of the selected     *)
(* combo's key: its total grows by the observed mini-batch score and its   *)
(* count by exactly 1, and the statistics of all other keys are unchanged; *)
(* no other step (the full-dataset evaluation, the generator call, the     *)
(* admission of new combos) changes a statistic.  Hence no count ever      *)
(* decreases, and the counts of all keys sum to the number of mini-batch   *)
(* evaluations made, which is t after t completed trials.                  *)
C12_OneStatisticPerTrial ==
    /\ [](/\ SumCounts(stats, DOMAIN stats) = miniEvals
          /\ pc \in {"loop", "done", "error"} =>
                SumCounts(stats, DOMAIN stats) = t)
    /\ [][/\ MiniBatchStep =>
                LET key == combos[combo'].key
                IN  /\ DOMAIN stats' = DOMAIN stats \cup {key}
                    /\ stats'[key].count = StatOf(stats, key).count + 1
                    /\ stats'[key].total = RAdd(StatOf(stats, key).total, score')
                    /\ \A k \in DOMAIN stats \ {key} : stats'[k] = stats[k]
          /\ ~MiniBatchStep => stats' = stats
          /\ \A k \in DOMAIN stats :
                k \in DOMAIN stats' /\ stats'[k].count >= stats[k].count]_vars

\* three trials and one full-dataset evaluation have been made on two
\* keys, one of them observed twice
C12_Witness ==
    /\ pc = "done" /\ t = 3 /\ fullEvals = 1
    /\ Cardinality(DOMAIN stats) = 2
    /\ \E k \in DOMAIN stats : stats[k].count = 2

(* C13: when the initial instruction candidates are pairwise distinct, at  *)
(* every trial t with t < number of currently known combos the forced      *)
(* combos[t] has no observation at the moment it is selected, also after   *)
(* the registry was expanded and the forced index has skipped over newly   *)
(* added combos.                                                           *)
C13_ForcedComboUnobserved ==
    [][(MiniBatchStep /\ t < Len(combos) /\ NoRowTwice(args.promptCandidates)) =>
            /\ combo' = t + 1
            /\ combos[t + 1].key \notin DOMAIN stats]_vars

\* the fourth trial was forced onto the fourth combo of a registry expanded
\* after three trials, while the third combo is still unobserved
C13_Witness ==
    /\ pc = "loop" /\ t = 4 /\ combo = 4 /\ proposeCalls = 1
    /\ NoRowTwice(args.promptCandidates)
    /\ Len(combos) >= 4 /\ NumInitialCombos <= 2
    /\ combos[3].key \notin DOMAIN stats
    /\ stats[combos[4].key].count = 1

=============================================================================
